---- MODULE Spec2Model ----
(***************************************************************************)
(* Model of oceanbase_rag/data_loader.py: the text chunker (_chunk_text)   *)
(* and the vector table life cycle of OceanBaseData (load_pdf,             *)
(* check_status, search_documents).                                        *)
(*                                                                         *)
(* A text is a sequence of one-character strings.  Python indexes from 0   *)
(* and TLA+ from 1: position p of a Python string is element p + 1 here.   *)
(***************************************************************************)
EXTENDS Integers, Sequences, FiniteSets, TLC

VARIABLES
    \* ---- one call of the chunker, _chunk_text(text) ----
    max_size,     \* the chunk size the call runs with   (CHUNK_SIZE)
    overlap,      \* the chunk overlap the call runs with (CHUNK_OVERLAP)
    text,         \* the local `text`: raw on entry, normalized from line 47 on
    start,        \* the cursor `start`
    chunks,       \* the local list `chunks`
    spans,        \* history: <<start, end>> of the slice taken by each iteration
    cpc,          \* position in _chunk_text: "call", "loop", "done"
    result,       \* the returned list (line 49 or line 65)
    \* ---- the store: the one table `pdf_documents` ----
    tableExists,  \* the table exists
    hasIndex,     \* the table has its vector index pdf_embedding_idx
    table,        \* the rows of the table, records [id, text, embedding]
    \* ---- the callers of OceanBaseData ----
    frame,        \* frame[c]: the locals of caller c's load_pdf call
    done,         \* done[c]: the operation c called last and its outcome
    ingested,     \* history: load_pdf has been called on this store
    cli           \* cli[c]: caller c's call of load_pdf_oceanbase

cvars == <<max_size, overlap, text, start, chunks, spans, cpc, result>>
svars == <<tableExists, hasIndex, table, frame, done, ingested, cli>>
vars == <<max_size, overlap, text, start, chunks, spans, cpc, result,
          tableExists, hasIndex, table, frame, done, ingested, cli>>

----------------------------------------------------------------------------
(* Bounds of the model *)

\* longest raw text given to the chunker
MaxLen == 6
\* largest chunk size the chunker is run with
MaxSize == 4
\* iterations of the while loop that are followed (a terminating run over a
\* text of length L takes at most L iterations: the cursor never repeats)
MaxIter == 8

\* characters of the raw text: a letter, a period and two kinds of whitespace
Whitespace == {" ", "\n"}
Alphabet == {"a", "."} \cup Whitespace

Min(a, b) == IF a < b THEN a ELSE b
Range(f) == {f[k] : k \in DOMAIN f}

\* all sequences over S of length 0..n
SeqUpTo(S, n) == UNION {[1..k -> S] : k \in 0..n}

----------------------------------------------------------------------------
(* String primitives used by _chunk_text *)

\* text[a:b] for 0 <= a, 0 <= b (Python clips both ends to the string)
Slice(s, a, b) == SubSeq(s, Min(a, Len(s)) + 1, Min(b, Len(s)))

\* re.sub(r"\s+", " ", s): every run of whitespace becomes one space
RECURSIVE Collapse(_)
Collapse(s) ==
    IF s = <<>> THEN <<>>
    ELSE LET r == Collapse(SubSeq(s, 1, Len(s) - 1))
             c == s[Len(s)]
         IN  IF c \in Whitespace
             THEN IF Len(s) > 1 /\ s[Len(s) - 1] \in Whitespace
                  THEN r
                  ELSE Append(r, " ")
             ELSE Append(r, c)

\* str.lstrip() / str.rstrip() / str.strip()
RECURSIVE LStrip(_)
LStrip(s) == IF s # <<>> /\ s[1] \in Whitespace THEN LStrip(Tail(s)) ELSE s

RECURSIVE RStrip(_)
RStrip(s) ==
    IF s # <<>> /\ s[Len(s)] \in Whitespace
    THEN RStrip(SubSeq(s, 1, Len(s) - 1))
    ELSE s

Strip(s) == RStrip(LStrip(s))

\* line 47: text = re.sub(r"\s+", " ", text).strip()
Normalize(s) == Strip(Collapse(s))

\* s.rfind(sub, lo, hi): the highest position p with lo <= p, p + len(sub) <= hi
\* (hi clipped to len(s)) where sub occurs, or -1
RFind(s, sub, lo, hi) ==
    LET top == Min(hi, Len(s))
        hits == {p \in lo..(top - Len(sub)) :
                    SubSeq(s, p + 1, p + Len(sub)) = sub}
    IN  IF hits = {} THEN -1
        ELSE CHOOSE p \in hits : \A q \in hits : q <= p

----------------------------------------------------------------------------
(* One iteration of the while loop of _chunk_text, lines 53-64 *)

\* lines 56-58: the break position searched in text[start : end + 1]
BreakAtSpaceFirst(s, st, end) ==
    LET b == RFind(s, <<" ">>, st, end + 1)
    IN  IF b = -1 THEN RFind(s, <<".", " ">>, st, end + 1) ELSE b

BreakAt(s, st, end) ==
    LET b == RFind(s, <<".", " ">>, st, end + 1)
    IN  IF b = -1 THEN RFind(s, <<" ">>, st, end + 1) ELSE b

\* lines 53-60: the end of the slice taken at cursor st
CutEndShort(s, st, ms) ==
    LET end == st + ms
    IN  IF end < Len(s) /\ BreakAt(s, st, end) # -1
        THEN BreakAt(s, st, end) + 1
        ELSE end - 1

CutEnd(s, st, ms) ==
    LET end == st + ms
    IN  IF end < Len(s) /\ BreakAt(s, st, end) # -1
        THEN BreakAt(s, st, end) + 1
        ELSE end

\* line 61: the chunk appended for the slice [st, end)
ChunkOfNoStrip(s, st, end) == Slice(s, st, end)

ChunkOf(s, st, end) == Strip(Slice(s, st, end))

\* lines 62-64: the next cursor
AdvanceSkip(end, ov) == IF end - ov < 0 THEN end + 1 ELSE end - ov + 1

Advance(end, ov) == IF end - ov < 0 THEN end ELSE end - ov

\* line 65: return [c for c in chunks if c]
NonEmpty(c) == c # <<>>

KeepAll(cs) == cs

Returned(cs) == SelectSeq(cs, NonEmpty)

----------------------------------------------------------------------------
(* The chunker as a step-by-step process *)

ChunkInit ==
    /\ max_size \in 1..MaxSize
    /\ overlap \in 0..(max_size - 1)
    /\ text \in SeqUpTo(Alphabet, MaxLen)
    /\ start = 0
    /\ chunks = <<>>
    /\ spans = <<>>
    /\ cpc = "call"
    /\ result = <<>>

\* lines 47-51: normalize; return [] on an empty text, else enter the loop
ChunkEnter ==
    /\ cpc = "call"
    /\ text' = Normalize(text)
    /\ IF text' = <<>>
       THEN cpc' = "done"
       ELSE cpc' = "loop"
    /\ UNCHANGED <<max_size, overlap, start, chunks, spans, result>>
    /\ UNCHANGED svars

\* lines 52-64: one iteration of the while loop
ChunkIterate ==
    /\ cpc = "loop"
    /\ start < Len(text)
    /\ Len(chunks) < MaxIter
    /\ LET end == CutEnd(text, start, max_size)
       IN  /\ chunks' = Append(chunks, ChunkOf(text, start, end))
           /\ spans' = Append(spans, <<start, end>>)
           /\ start' = Advance(end, overlap)
    /\ UNCHANGED <<max_size, overlap, text, cpc, result>>
    /\ UNCHANGED svars

\* lines 52, 65: the loop condition fails; return the non-empty chunks
ChunkReturn ==
    /\ cpc = "loop"
    /\ ~(start < Len(text))
    /\ result' = Returned(chunks)
    /\ cpc' = "done"
    /\ UNCHANGED <<max_size, overlap, text, start, chunks, spans>>
    /\ UNCHANGED svars

\* _chunk_text run to its return: the list it returns, or `diverges` when the
\* loop never ends.  The loop's next cursor depends on the cursor alone, so a
\* run that ends takes every cursor value at most once: at most Len(s)
\* iterations.
RECURSIVE ChunkLoop(_, _, _, _, _, _)
ChunkLoop(s, st, cs, ms, ov, fuel) ==
    IF ~(st < Len(s)) THEN [diverges |-> FALSE, chunks |-> Returned(cs)]
    ELSE IF fuel = 0 THEN [diverges |-> TRUE, chunks |-> <<>>]
    ELSE LET end == CutEnd(s, st, ms)
         IN  ChunkLoop(s, Advance(end, ov), Append(cs, ChunkOf(s, st, end)),
                       ms, ov, fuel - 1)

chunk_text(raw, ms, ov) ==
    LET s == Normalize(raw)
    IN  IF s = <<>> THEN [diverges |-> FALSE, chunks |-> <<>>]
        ELSE ChunkLoop(s, 0, <<>>, ms, ov, Len(s))

----------------------------------------------------------------------------
(* The store and OceanBaseData *)

\* the callers of load_pdf / check_status / search_documents; the program is
\* synchronous and single-threaded, so Spec runs the one caller of SeqCallers
Callers == {1, 2}
SeqCallers == {1}

\* CHUNK_SIZE and CHUNK_OVERLAP are 1500 and 200 in the source (lines 29-30).
\* _chunk_text reads them only in `start + CHUNK_SIZE` and `end -
\* CHUNK_OVERLAP`, so the model runs load_pdf with a small pair of the same
\* shape (0 < overlap < size), which keeps the documents short.
CHUNK_SIZE == 3
CHUNK_OVERLAP == 1

\* line 135: batch_size = 5
batch_size == 5
\* line 142: chunk[:16000] (the column is String(16000), line 113)
TEXT_MAX == 16000

\* longest page of letters among the documents
MaxDocLen == 22
\* largest `limit` given to search_documents
MaxLimit == 2

Take(s, n) == SubSeq(s, 1, Min(n, Len(s)))

\* "\n".join(parts)
RECURSIVE Join(_)
Join(parts) ==
    IF parts = <<>> THEN <<>>
    ELSE IF Len(parts) = 1 THEN parts[1]
    ELSE parts[1] \o <<"\n">> \o Join(Tail(parts))

\* lines 33-41: a pdf is the sequence of its pages' texts (<<>> for a page
\* without text); pages without text are skipped, the others joined by "\n"
extract_text_from_pdf(pdf) == Join(SelectSeq(pdf, NonEmpty))

\* the documents: without pages, without text, of whitespace only, one page
\* of n letters, three pages of words, and one whose sentence break makes
\* the chunker's loop repeat
Letters == <<"a", "b", "c", "d", "e", "f", "g">>
LetterPage(n) == [k \in 1..n |-> Letters[((k + n) % Len(Letters)) + 1]]
Pdfs ==
    {<<>>, << <<>> >>, << <<" ">>, <<" ", " ">> >>}
    \cup {<<LetterPage(n)>> : n \in 1..MaxDocLen}
    \cup {<< <<"a", "b">>, <<"c", "d">>, <<"e", "f">> >>,
          << <<"a", ".">>, <<"b", "c", "d", "e", "f">> >>}

Queries == {<<"a", "b">>, <<"e", "f">>}

\* embeddings.py, get_embedding: the provider's vector for a text, an opaque
\* value that is a function of the text
get_embedding(t) == <<"vec", t>>

\* cosine_distance of two of these vectors: 0 between equal vectors
cosine_distance(u, v) == IF u = v THEN 0 ELSE 1

\* lines 165-174: the topk rows nearest to the query vector, ties in id order
RECURSIVE ann_search(_, _, _)
ann_search(rows, vec, topk) ==
    IF topk = 0 \/ rows = {} THEN <<>>
    ELSE LET d(r) == cosine_distance(r.embedding, vec)
             best == CHOOSE r \in rows : \A o \in rows :
                        d(r) < d(o) \/ (d(r) = d(o) /\ r.id <= o.id)
         IN  <<best>> \o ann_search(rows \ {best}, vec, topk - 1)

\* lines 176-182: the returned dicts
SearchOut(rows, vec) ==
    [k \in 1..Len(rows) |->
        [distance |-> cosine_distance(rows[k].embedding, vec),
         text |-> rows[k].text]]

IdleFrame ==
    [pc |-> "idle", pdf |-> <<>>, chunks |-> <<>>, i |-> 0, rows |-> <<>>,
     before |-> [exists |-> FALSE, rows |-> {}]]

\* a call of load_pdf_oceanbase: not made, "running", "returned" with a code,
\* or "raised" when an error leaves it; `failed` records that an error arose
CliState(st, code, failed) == [st |-> st, code |-> code, failed |-> failed]
NoCli == CliState("none", 0, FALSE)

Outcome(op, outcome, value, embeds) ==
    [op |-> op, outcome |-> outcome, value |-> value, embeds |-> embeds]

StoreInit ==
    /\ tableExists = FALSE
    /\ hasIndex = FALSE
    /\ table = {}
    /\ frame = [c \in Callers |-> IdleFrame]
    /\ done = [c \in Callers |-> Outcome("none", "none", <<>>, 0)]
    /\ ingested = FALSE
    /\ cli = [c \in Callers |-> NoCli]

\* the chunker variables while no call of the chunker is followed step by step
ChunkIdle ==
    /\ max_size = CHUNK_SIZE
    /\ overlap = CHUNK_OVERLAP
    /\ text = <<>>
    /\ start = 0
    /\ chunks = <<>>
    /\ spans = <<>>
    /\ cpc = "idle"
    /\ result = <<>>

Init == StoreInit /\ ChunkIdle

\* a frame is kept after load_pdf returns or raises, as the record of the call

\* line 105: load_pdf(pdf_path) is called
LoadPdfCall(c, pdf) ==
    /\ frame[c].pc = "idle"
    /\ frame' = [frame EXCEPT ![c] =
            [pc |-> "drop", pdf |-> pdf, chunks |-> <<>>, i |-> 0,
             rows |-> <<>>,
             before |-> [exists |-> tableExists, rows |-> table]]]
    /\ done' = [done EXCEPT ![c] = Outcome("load_pdf", "running", <<>>, 0)]
    /\ ingested' = TRUE
    /\ UNCHANGED <<tableExists, hasIndex, table>>
    /\ UNCHANGED <<cvars, cli>>

\* lines 107-108: client.drop_table_if_exist
LoadDropNothing(c) ==
    /\ frame[c].pc = "drop"
    /\ frame' = [frame EXCEPT ![c].pc = "create"]
    /\ UNCHANGED <<tableExists, hasIndex, table, done, ingested>>
    /\ UNCHANGED <<cvars, cli>>

LoadDrop(c) ==
    /\ frame[c].pc = "drop"
    /\ tableExists' = FALSE
    /\ hasIndex' = FALSE
    /\ table' = {}
    /\ frame' = [frame EXCEPT ![c].pc = "create"]
    /\ UNCHANGED <<done, ingested>>
    /\ UNCHANGED <<cvars, cli>>

\* lines 110-127: client.create_table_with_index_params, the table and its
\* HNSW index on `embedding` in one call
LoadCreateNoTable(c) ==
    /\ frame[c].pc = "create"
    /\ frame' = [frame EXCEPT ![c].pc = "chunk"]
    /\ UNCHANGED <<tableExists, hasIndex, table, done, ingested>>
    /\ UNCHANGED <<cvars, cli>>

LoadCreateNoIndex(c) ==
    /\ frame[c].pc = "create"
    /\ tableExists' = TRUE
    /\ table' = IF tableExists THEN table ELSE {}
    /\ frame' = [frame EXCEPT ![c].pc = "chunk"]
    /\ UNCHANGED <<hasIndex, done, ingested>>
    /\ UNCHANGED <<cvars, cli>>

LoadCreate(c) ==
    /\ frame[c].pc = "create"
    /\ tableExists' = TRUE
    /\ hasIndex' = TRUE
    /\ table' = IF tableExists THEN table ELSE {}
    /\ frame' = [frame EXCEPT ![c].pc = "chunk"]
    /\ UNCHANGED <<done, ingested>>
    /\ UNCHANGED <<cvars, cli>>

\* lines 129-132: extract, chunk, and return when there are no chunks; a
\* chunker that never returns leaves the caller inside load_pdf
ChunkStep(f) ==
    LET r == chunk_text(extract_text_from_pdf(f.pdf), CHUNK_SIZE, CHUNK_OVERLAP)
    IN  IF r.diverges THEN [f EXCEPT !.pc = "hung"]
        ELSE IF r.chunks = <<>> THEN [f EXCEPT !.pc = "idle"]
        ELSE [f EXCEPT !.pc = "embed", !.chunks = r.chunks]

LoadChunk(c) ==
    /\ frame[c].pc = "chunk"
    /\ frame' = [frame EXCEPT ![c] = ChunkStep(frame[c])]
    /\ done' = [done EXCEPT ![c].outcome =
                    IF frame'[c].pc = "idle" THEN "ok" ELSE @]
    /\ UNCHANGED <<tableExists, hasIndex, table, ingested>>
    /\ UNCHANGED <<cvars, cli>>

\* line 137: batch = chunks[i : i + batch_size]
BatchWhole(cs, i) == Slice(cs, i, Len(cs))

Batch(cs, i) == Slice(cs, i, i + batch_size)

\* lines 140-142: the row built for chunk j (0-based) of the batch at i
Row(i, j, chunk) ==
    [id |-> i + j + 1, text |-> Take(chunk, TEXT_MAX),
     embedding |-> get_embedding(chunk)]

\* lines 139-142: one turn of the inner loop, get_embedding returns
LoadEmbed(c) ==
    /\ frame[c].pc = "embed"
    /\ LET f == frame[c]
           batch == Batch(f.chunks, f.i)
           j == Len(f.rows)
       IN  frame' = [frame EXCEPT
                ![c].rows = Append(f.rows, Row(f.i, j, batch[j + 1])),
                ![c].pc = IF j + 1 = Len(batch) THEN "insert" ELSE "embed"]
    /\ done' = [done EXCEPT ![c].embeds = @ + 1]
    /\ UNCHANGED <<tableExists, hasIndex, table, ingested>>
    /\ UNCHANGED <<cvars, cli>>

\* line 141: get_embedding raises (network, auth, quota); load_pdf catches
\* nothing, the error leaves it
LoadEmbedFail(c) ==
    /\ frame[c].pc = "embed"
    /\ frame' = [frame EXCEPT ![c].pc = "idle"]
    /\ done' = [done EXCEPT ![c].outcome = "raised", ![c].embeds = @ + 1]
    /\ UNCHANGED <<tableExists, hasIndex, table, ingested>>
    /\ UNCHANGED <<cvars, cli>>

\* client.insert(table, rows): one INSERT of all the rows in one transaction;
\* it needs the table, and ids that are not yet used (id is the primary key)
CanInsertNoKey(rows) == tableExists

CanInsert(rows) ==
    /\ tableExists
    /\ \A r \in Range(rows) : \A o \in table : o.id # r.id

\* the table after the insert of the batch
Inserted(t, rows) == t \cup Range(rows)

\* line 136: the batches left after the one at i
MoreBatchesNever(cs, i) == FALSE

MoreBatches(cs, i) == i + batch_size < Len(cs)

\* line 143 and the loop of line 136: the insert returns
LoadInsert(c) ==
    /\ frame[c].pc = "insert"
    /\ CanInsert(frame[c].rows)
    /\ table' = Inserted(table, frame[c].rows)
    /\ IF MoreBatches(frame[c].chunks, frame[c].i)
       THEN /\ frame' = [frame EXCEPT ![c].pc = "embed",
                                      ![c].i = @ + batch_size,
                                      ![c].rows = <<>>]
            /\ UNCHANGED done
       ELSE /\ frame' = [frame EXCEPT ![c].pc = "idle"]
            /\ done' = [done EXCEPT ![c].outcome = "ok"]
    /\ UNCHANGED <<tableExists, hasIndex, ingested>>
    /\ UNCHANGED <<cvars, cli>>

\* line 143: the insert raises; the transaction of the batch is rolled back
LoadInsertFailPartial(c) ==
    /\ frame[c].pc = "insert"
    /\ CanInsert(frame[c].rows)
    /\ table' = table \cup {frame[c].rows[1]}
    /\ frame' = [frame EXCEPT ![c].pc = "idle"]
    /\ done' = [done EXCEPT ![c].outcome = "raised"]
    /\ UNCHANGED <<tableExists, hasIndex, ingested>>
    /\ UNCHANGED <<cvars, cli>>

LoadInsertFail(c) ==
    /\ frame[c].pc = "insert"
    /\ frame' = [frame EXCEPT ![c].pc = "idle"]
    /\ done' = [done EXCEPT ![c].outcome = "raised"]
    /\ UNCHANGED <<tableExists, hasIndex, table, ingested>>
    /\ UNCHANGED <<cvars, cli>>

\* lines 145-153: check_status
StatusAlwaysRows(exists, rows) == "rows=" \o ToString(Cardinality(rows))

Status(exists, rows) ==
    IF ~exists THEN "table does not exist"
    ELSE "rows=" \o ToString(Cardinality(rows))

CheckStatusCreates(c) ==
    /\ frame[c].pc = "idle"
    /\ done' = [done EXCEPT ![c] =
            Outcome("check_status", "ok", Status(tableExists, table), 0)]
    /\ tableExists' = TRUE
    /\ hasIndex' = TRUE
    /\ table' = IF tableExists THEN table ELSE {}
    /\ UNCHANGED <<frame, ingested>>
    /\ UNCHANGED <<cvars, cli>>

CheckStatus(c) ==
    /\ frame[c].pc = "idle"
    /\ done' = [done EXCEPT ![c] =
            Outcome("check_status", "ok", Status(tableExists, table), 0)]
    /\ UNCHANGED <<tableExists, hasIndex, table, frame, ingested>>
    /\ UNCHANGED <<cvars, cli>>

\* lines 155-182: the ways search_documents(query, limit) can end: [] without
\* a call of the provider when the table is missing; else the query is
\* embedded, which raises or gives the vector that is searched
SearchEmbedFirst(exists, rows, query, limit) ==
    {Outcome("search_documents", "raised", <<>>, 1)} \cup
    IF ~exists THEN {Outcome("search_documents", "ok", <<>>, 1)}
    ELSE LET vec == get_embedding(query)
         IN  {Outcome("search_documents", "ok",
                      SearchOut(ann_search(rows, vec, limit), vec), 1)}

SearchOutcomes(exists, rows, query, limit) ==
    IF ~exists THEN {Outcome("search_documents", "ok", <<>>, 0)}
    ELSE LET vec == get_embedding(query)
         IN  {Outcome("search_documents", "raised", <<>>, 1),
              Outcome("search_documents", "ok",
                      SearchOut(ann_search(rows, vec, limit), vec), 1)}

SearchDocuments(c, query, limit) ==
    /\ frame[c].pc = "idle"
    /\ \E o \in SearchOutcomes(tableExists, table, query, limit) :
          done' = [done EXCEPT ![c] = o]
    /\ UNCHANGED <<tableExists, hasIndex, table, frame, ingested>>
    /\ UNCHANGED <<cvars, cli>>

\* lines 190-203: load_pdf_oceanbase(pdf_path) is called; it returns 1 when
\* the path is not a file (is_file false), else it calls load_pdf on a new
\* OceanBaseData with the file at the path
LoadPdfOceanbaseCall(c, is_file, path) ==
    /\ frame[c].pc = "idle"
    /\ cli[c].st # "running"
    /\ IF ~is_file
       THEN /\ cli' = [cli EXCEPT ![c] = CliState("returned", 1, TRUE)]
            /\ UNCHANGED <<frame, done, ingested>>
       ELSE /\ cli' = [cli EXCEPT ![c] = CliState("running", 0, FALSE)]
            /\ frame' = [frame EXCEPT ![c] =
                    [pc |-> "drop", pdf |-> path, chunks |-> <<>>, i |-> 0,
                     rows |-> <<>>,
                     before |-> [exists |-> tableExists, rows |-> table]]]
            /\ done' = [done EXCEPT ![c] =
                    Outcome("load_pdf", "running", <<>>, 0)]
            /\ ingested' = TRUE
    /\ UNCHANGED <<tableExists, hasIndex, table>>
    /\ UNCHANGED cvars

\* lines 203-205: load_pdf has ended.  There is no try around it: an error
\* it raised leaves load_pdf_oceanbase too; else check_status is called for
\* the message printed and 0 is returned
LoadPdfOceanbaseEnd(c) ==
    /\ cli[c].st = "running"
    /\ frame[c].pc = "idle"
    /\ IF done[c].outcome = "raised"
       THEN /\ cli' = [cli EXCEPT ![c] = CliState("raised", 0, TRUE)]
            /\ UNCHANGED done
       ELSE /\ cli' = [cli EXCEPT ![c] = CliState("returned", 0, FALSE)]
            /\ done' = [done EXCEPT ![c] =
                    Outcome("check_status", "ok", Status(tableExists, table), 0)]
    /\ UNCHANGED <<tableExists, hasIndex, table, frame, ingested>>
    /\ UNCHANGED cvars

Next ==
    \E c \in SeqCallers :
        \/ \E pdf \in Pdfs : LoadPdfCall(c, pdf)
        \/ LoadDrop(c)
        \/ LoadCreate(c)
        \/ LoadChunk(c)
        \/ LoadEmbed(c)
        \/ LoadEmbedFail(c)
        \/ LoadInsert(c)
        \/ LoadInsertFail(c)
        \/ CheckStatus(c)
        \/ \E q \in Queries, limit \in 0..MaxLimit : SearchDocuments(c, q, limit)

Spec == Init /\ [][Next]_vars

\* the command load_pdf_oceanbase, run any number of times by the one caller
NextCli ==
    \E c \in SeqCallers :
        \/ \E is_file \in BOOLEAN, path \in Pdfs :
               LoadPdfOceanbaseCall(c, is_file, path)
        \/ LoadDrop(c)
        \/ LoadCreate(c)
        \/ LoadChunk(c)
        \/ LoadEmbed(c)
        \/ LoadEmbedFail(c)
        \/ LoadInsert(c)
        \/ LoadInsertFail(c)
        \/ LoadPdfOceanbaseEnd(c)

SpecCli == Init /\ [][NextCli]_vars

\* two callers (two runs of the command, two tool processes) on the one
\* table, each calling load_pdf once on one of two documents of 3 and of 6
\* chunks; their client calls interleave in any order
ConcPdfs == {<<LetterPage(5)>>, <<LetterPage(11)>>}

ConcLoadPdfCall(c, pdf) ==
    /\ done[c].op = "none"
    /\ LoadPdfCall(c, pdf)

NextConc ==
    \E c \in Callers :
        \/ \E pdf \in ConcPdfs : ConcLoadPdfCall(c, pdf)
        \/ LoadDrop(c)
        \/ LoadCreate(c)
        \/ LoadChunk(c)
        \/ LoadEmbed(c)
        \/ LoadEmbedFail(c)
        \/ LoadInsert(c)
        \/ LoadInsertFail(c)

SpecConc == Init /\ [][NextConc]_vars

\* one call of _chunk_text followed step by step, the store left alone
ChunkNext == ChunkEnter \/ ChunkIterate \/ ChunkReturn

InitChunk == ChunkInit /\ StoreInit

SpecChunk == InitChunk /\ [][ChunkNext]_vars

----------------------------------------------------------------------------
(* Properties of the chunker *)

\* C1: the chunker terminates on every input because the cursor `start`
\* strictly increases on every iteration of the while loop.
C1_StartStrictlyIncreases == [][ChunkIterate => start' > start]_vars

\* C2: every chunk the chunker produces has length <= max_size, also when the
\* boundary search matches a space located exactly at index start + max_size.
C2_ChunkBound ==
    /\ \A k \in 1..Len(chunks) : Len(chunks[k]) <= max_size
    /\ \A k \in 1..Len(result) : Len(result[k]) <= max_size

\* a slice that ends one past a space found at index start + max_size, and
\* whose chunk is max_size long
C2_Witness ==
    \E k \in 1..Len(spans) :
        /\ spans[k][2] = spans[k][1] + max_size + 1
        /\ text[spans[k][2]] = " "
        /\ Len(chunks[k]) = max_size

\* C3: a non-empty normalized text shorter than max_size yields exactly one
\* chunk.
C3_ShortTextOneChunk ==
    (cpc = "done" /\ text # <<>> /\ Len(text) < max_size) => Len(result) = 1

\* position (0-based) of the first character of chunk k in the text
ChunkPos(k) ==
    LET sl == Slice(text, spans[k][1], spans[k][2])
    IN  spans[k][1] + (Len(sl) - Len(LStrip(sl)))

\* returned chunk k holds the character at position p of the text
Covers(k, p) ==
    /\ chunks[k] \in Range(result)
    /\ ChunkPos(k) <= p
    /\ p < ChunkPos(k) + Len(chunks[k])
    /\ chunks[k][p - ChunkPos(k) + 1] = text[p + 1]

\* C4: successive slices leave no gap (each next start is <= the previous
\* end) and cover the text from 0 to its length, so every non-whitespace
\* character position of the normalized text is in some returned chunk.
C4_Coverage ==
    /\ \A k \in 1..Len(spans) :
          IF k = 1 THEN spans[k][1] = 0 ELSE spans[k][1] <= spans[k - 1][2]
    /\ cpc = "loop" => (spans = <<>> /\ start = 0)
                         \/ (spans # <<>> /\ start <= spans[Len(spans)][2])
    /\ (cpc = "done" /\ text # <<>>) =>
          /\ spans # <<>> /\ spans[Len(spans)][2] >= Len(text)
          /\ \A p \in 0..(Len(text) - 1) :
                text[p + 1] \notin Whitespace =>
                    \E k \in 1..Len(chunks) : Covers(k, p)

\* a finished run of several slices, one of them trimmed at an edge
C4_Witness ==
    /\ cpc = "done"
    /\ Len(result) >= 3
    /\ \E k \in 1..Len(chunks) :
          Len(chunks[k]) < Min(spans[k][2], Len(text)) - spans[k][1]

\* ceil(a / b) for a >= 0, b > 0
CeilDiv(a, b) == (a + b - 1) \div b

\* the lower bound of the spec on the number of chunks of a text of length L
CountBound(L) == CeilDiv(L - overlap, max_size - overlap)

\* the window start..start + max_size of slice k holds a space
SpaceInWindow(k) ==
    \E p \in spans[k][1]..(spans[k][1] + max_size) :
        p < Len(text) /\ text[p + 1] = " "

\* slice k is a final segment: start + max_size reaches the end of the text
FinalSegment(k) == spans[k][1] + max_size >= Len(text)

\* no boundary was found for slice k: it is a final segment, which is not
\* searched, or its window holds no space
HardCut(k) == FinalSegment(k) \/ ~SpaceInWindow(k)

\* C11 as claimed: for a normalized text of length L > max_size the chunker
\* returns at least ceil((L - overlap) / (max_size - overlap)) chunks.
C11_CountLowerBound ==
    (cpc = "done" /\ Len(text) > max_size) =>
        Len(result) >= CountBound(Len(text))

\* C11 amended: for a normalized text of length L > max_size the chunker
\* returns at least ceil((L - overlap) / (max_size - overlap)) chunks when no
\* slice was cut at a sentence or space boundary (no window searched for a
\* boundary holds a space).
C11_CountLowerBoundHardCuts ==
    (cpc = "done" /\ Len(text) > max_size
        /\ \A k \in 1..Len(spans) : HardCut(k)) =>
        Len(result) >= CountBound(Len(text))

\* a finished run over a text longer than max_size, by hard cuts only, with
\* an overlap
C11_Witness ==
    /\ cpc = "done"
    /\ Len(text) > max_size
    /\ overlap > 0
    /\ Len(spans) >= 3
    /\ \A k \in 1..Len(spans) : HardCut(k)

\* C12 as claimed: every returned chunk other than the last has length
\* exactly max_size.
C12_OnlyLastShort ==
    cpc = "done" =>
        \A k \in 1..(Len(result) - 1) : Len(result[k]) = max_size

\* C12 amended: every chunk has length <= max_size, and a chunk shorter than
\* max_size comes only from a slice cut at a boundary (its window holds a
\* space) or from a slice that reaches the end of the text; such chunks are
\* not only in the last position.
C12_ShortOnlyAtBoundaryOrEnd ==
    \A k \in 1..Len(chunks) :
        /\ Len(chunks[k]) <= max_size
        /\ Len(chunks[k]) < max_size => (SpaceInWindow(k) \/ FinalSegment(k))

\* a finished run with a full chunk from a hard cut and, before the last
\* returned chunk, a short chunk from a boundary cut
C12_Witness ==
    /\ cpc = "done"
    /\ \E k \in 1..Len(chunks) :
          ~FinalSegment(k) /\ ~SpaceInWindow(k) /\ Len(chunks[k]) = max_size
    /\ \E k \in 1..(Len(chunks) - 1) :
          /\ chunks[k] # <<>>
          /\ Len(chunks[k]) < max_size
          /\ SpaceInWindow(k) /\ ~FinalSegment(k)

\* line 29, line 30: the chunk size and overlap of the source
SOURCE_CHUNK_SIZE == 1500
SOURCE_CHUNK_OVERLAP == 200
\* "A. B. " followed by 3000 "x", a normalized text
ExampleText ==
    <<"A", ".", " ", "B", ".", " ">> \o [k \in 1..3000 |-> "x"]

\* what _chunk_text returns for it with the source's size and overlap
ExampleChunks ==
    ChunkLoop(ExampleText, 0, <<>>, SOURCE_CHUNK_SIZE, SOURCE_CHUNK_OVERLAP,
              Len(ExampleText)).chunks

\* C13 as claimed: of two consecutive returned chunks the later one's slice
\* starts exactly overlap characters before the end of the earlier one's.
C13_ExactOverlap ==
    \A k \in 1..(Len(spans) - 1) :
        (chunks[k] # <<>> /\ chunks[k + 1] # <<>>) =>
            spans[k + 1][1] = spans[k][2] - overlap

\* C13 amended: each slice after the first starts exactly overlap positions
\* before the end position of the slice before it when that end position is
\* at least overlap, and at that end position otherwise.  For "A. B. "
\* followed by 3000 "x" with max_size 1500 and overlap 200 there are 4
\* chunks, of 5, 1500, 1500 and 400 characters: the second shares nothing
\* with the first, the third and the fourth each start 200 characters
\* before the end of the one before.
C13_OverlapUnlessForced ==
    /\ \A k \in 1..(Len(spans) - 1) :
          spans[k + 1][1] = IF spans[k][2] < overlap
                            THEN spans[k][2]
                            ELSE spans[k][2] - overlap
    /\ [k \in 1..Len(ExampleChunks) |-> Len(ExampleChunks[k])]
          = <<5, 1500, 1500, 400>>
    /\ ExampleChunks[1] = <<"A", ".", " ", "B", ".">>

\* a run where one slice ended before position overlap, so that the next
\* started at its end, and a later slice started overlap before an end
C13_Witness ==
    /\ overlap > 0
    /\ \E k \in 1..(Len(spans) - 1) :
          spans[k][2] < overlap /\ spans[k + 1][1] = spans[k][2]
    /\ \E k \in 1..(Len(spans) - 1) :
          spans[k][2] >= overlap /\ spans[k + 1][1] = spans[k][2] - overlap

\* C14: the chunker returns the empty sequence for the empty string and for
\* any whitespace-only string, and every element it returns is a non-empty
\* string without leading or trailing whitespace.
C14_EmptyInputNonEmptyElements ==
    /\ [][(cpc = "call" /\ \A k \in 1..Len(text) : text[k] \in Whitespace)
            => (cpc' = "done" /\ result' = <<>>)]_vars
    /\ [](\A k \in 1..Len(result) :
            /\ result[k] # <<>>
            /\ result[k][1] \notin Whitespace
            /\ result[k][Len(result[k])] \notin Whitespace)

\* a finished run that returned chunks and left out an empty one
C14_Witness ==
    /\ cpc = "done"
    /\ result # <<>>
    /\ \E k \in 1..Len(chunks) : chunks[k] = <<>>
    /\ Len(result) < Len(chunks)

\* the positions p of the window of slice k where ". " starts (both
\* characters inside start..start + max_size), and those that hold a space
DotSpaces(k) ==
    {p \in spans[k][1]..(spans[k][1] + max_size - 1) :
        p + 1 < Len(text) /\ text[p + 1] = "." /\ text[p + 2] = " "}
Spaces(k) ==
    {p \in spans[k][1]..(spans[k][1] + max_size) :
        p < Len(text) /\ text[p + 1] = " "}
Last(S) == CHOOSE p \in S : \A q \in S : q <= p

\* C17: a non-final segment is cut one past the start of the last ". " of
\* its window if there is one, even when a space comes later in the window;
\* else one past the last space of the window if there is one; else at
\* start + max_size.  A final segment is cut at start + max_size.
C17_BoundarySelection ==
    \A k \in 1..Len(spans) :
        spans[k][2] =
            IF FinalSegment(k) THEN spans[k][1] + max_size
            ELSE IF DotSpaces(k) # {} THEN Last(DotSpaces(k)) + 1
            ELSE IF Spaces(k) # {} THEN Last(Spaces(k)) + 1
            ELSE spans[k][1] + max_size

\* a non-final slice cut after a period although a space comes later in its
\* window
C17_Witness ==
    \E k \in 1..Len(spans) :
        /\ ~FinalSegment(k)
        /\ DotSpaces(k) # {}
        /\ Last(Spaces(k)) > Last(DotSpaces(k)) + 1
        /\ spans[k][2] = Last(DotSpaces(k)) + 1

----------------------------------------------------------------------------
(* Properties of load_pdf, check_status and search_documents *)

\* caller c's last operation is a load_pdf that returned / that raised
LoadedOK(c) == done[c].op = "load_pdf" /\ done[c].outcome = "ok"
LoadRaised(c) == done[c].op = "load_pdf" /\ done[c].outcome = "raised"

\* the ids and texts held by the table
IdText(rows) == {[id |-> r.id, text |-> r.text] : r \in rows}

\* C5: after a successful load_pdf of a document that produces N chunks the
\* table holds exactly N rows, their ids are exactly 1..N, and the row with
\* id k holds the text of the k-th chunk.
C5_IdMonotonicity ==
    \A c \in Callers : LoadedOK(c) =>
        LET cs == frame[c].chunks
        IN  /\ Cardinality(table) = Len(cs)
            /\ {r.id : r \in table} = 1..Len(cs)
            /\ \A r \in table : r.text = cs[r.id]

\* a successful load of 11 chunks: three batches, two batch boundaries
C5_Witness ==
    \E c \in Callers : LoadedOK(c) /\ Len(frame[c].chunks) = 11

\* C6: check_status returns "table does not exist" in a store where no ingest
\* has run, and "rows=N" immediately after a successful load_pdf of a
\* document producing N chunks.
C6_StatusTransitions ==
    /\ [](\A c \in Callers :
            (done[c].op = "check_status" /\ ~ingested) =>
                done[c].value = "table does not exist")
    /\ [][\A c \in Callers :
            (LoadedOK(c) /\ done'[c].op = "check_status") =>
                done'[c].value = "rows=" \o ToString(Len(frame[c].chunks))]_vars

\* check_status has answered "rows=11": only a load that inserted its 11
\* chunks leaves 11 rows
C6_Witness ==
    \E c \in Callers :
        /\ done[c].op = "check_status"
        /\ done[c].value = "rows=11"
        /\ Len(frame[c].chunks) = 11

\* C7: whenever the table does not exist, search_documents(query, limit)
\* returns an empty sequence, raises no error and does not call the
\* embedding provider, for every query and limit.
C7_SearchMissingTable ==
    [][\A c \in Callers, q \in Queries, limit \in 0..MaxLimit :
        (~tableExists /\ SearchDocuments(c, q, limit)) =>
            done'[c] = Outcome("search_documents", "ok", <<>>, 0)]_vars

\* search_documents has run on a store without the table
C7_Witness ==
    \E c \in Callers : done[c].op = "search_documents" /\ ~tableExists

\* C8 as claimed: a load_pdf whose text yields zero chunks returns with the
\* table's existence and its rows exactly as they were before the call.
C8_ZeroChunkStoreUntouched ==
    \A c \in Callers : (LoadedOK(c) /\ frame[c].chunks = <<>>) =>
        /\ tableExists = frame[c].before.exists
        /\ table = frame[c].before.rows

\* C8 amended: a load_pdf whose text yields zero chunks calls neither the
\* embedding provider nor insert; it returns after the drop and re-creation,
\* with the table existing and empty whatever it held before.
C8_ZeroChunkEmptyTable ==
    \A c \in Callers : (LoadedOK(c) /\ frame[c].chunks = <<>>) =>
        /\ tableExists
        /\ hasIndex
        /\ table = {}
        /\ done[c].embeds = 0

\* a zero-chunk load over a table that held rows
C8_Witness ==
    \E c \in Callers :
        /\ LoadedOK(c)
        /\ frame[c].chunks = <<>>
        /\ frame[c].before.rows # {}

\* C9: when an embedding call or the insert fails in batch k of load_pdf,
\* the error reaches the caller and the table exists and holds exactly the
\* rows 1..5*(k-1) of the document, in order, and no row of batch k or later.
C9_PartialFailurePrefix ==
    \A c \in Callers : LoadRaised(c) =>
        LET cs == frame[c].chunks
            k == (frame[c].i \div batch_size) + 1
            n == batch_size * (k - 1)
        IN  /\ frame[c].pc = "idle"
            /\ frame[c].i = n
            /\ tableExists
            /\ IdText(table) = {[id |-> m, text |-> cs[m]] : m \in 1..n}
            /\ Cardinality(table) = n

\* the insert of the third batch has failed, after all its embeddings
C9_Witness ==
    \E c \in Callers :
        /\ LoadRaised(c)
        /\ frame[c].i = 2 * batch_size
        /\ Len(frame[c].rows) = Len(Batch(frame[c].chunks, frame[c].i))

\* C10: after any earlier loads, successful or failed part-way, a successful
\* load_pdf of a document with N chunks leaves the table holding exactly
\* that document's N rows and no row of an earlier load.
C10_FullReload ==
    \A c \in Callers : LoadedOK(c) =>
        LET cs == frame[c].chunks
        IN  table = {Row(0, m - 1, cs[m]) : m \in 1..Len(cs)}

\* a successful load over a table that held more rows, all of them gone
C10_Witness ==
    \E c \in Callers :
        /\ LoadedOK(c)
        /\ frame[c].chunks # <<>>
        /\ Cardinality(frame[c].before.rows) > Len(frame[c].chunks)
        /\ frame[c].before.rows \cap table = {}

\* C15: load_pdf_oceanbase reports every outcome through its return value:
\* 0 when the load succeeds, 1 on any error, and no error escapes it.
C15_ReturnsZeroOrOne ==
    \A c \in Callers : cli[c].st \in {"returned", "raised"} =>
        /\ cli[c].st = "returned"
        /\ cli[c].code = IF cli[c].failed THEN 1 ELSE 0

\* the store as the queries and load_pdf see it
store == <<tableExists, hasIndex, table>>

\* a caller is inside load_pdf, at one of its calls of the client
InLoadAt(pcs) == \E c \in Callers : frame[c].pc \in pcs

\* C16: check_status and search_documents are read-only: a step in which one
\* of them ends leaves the table, its index and its rows as they were; the
\* table is dropped or created only by a caller inside load_pdf, at its drop
\* or its create, and rows change only there or at its insert.
C16_QueriesReadOnly ==
    [][ /\ \A c \in Callers :
            (done'[c] # done[c] /\
             done'[c].op \in {"check_status", "search_documents"})
                => store' = store
        /\ (tableExists' # tableExists \/ hasIndex' # hasIndex)
                => InLoadAt({"drop", "create"})
        /\ table' # table => InLoadAt({"drop", "create", "insert"}) ]_vars

\* search_documents has returned hits from a loaded table, which still holds
\* its rows
C16_Witness ==
    \E c \in Callers :
        /\ done[c].op = "search_documents"
        /\ done[c].outcome = "ok"
        /\ done[c].value # <<>>
        /\ tableExists /\ hasIndex /\ table # {}

\* C18: within one load_pdf the drop precedes the create (the caller reaches
\* its create with the old table gone), the table comes with its vector index
\* in the one create, and every insert finds the table and its index: they
\* exist from the create to the end of the load, and rows are added only then.
C18_LifecycleOrdering ==
    /\ [](\A c \in SeqCallers :
            /\ frame[c].pc = "create" => ~tableExists /\ ~hasIndex /\ table = {}
            /\ frame[c].pc \in {"chunk", "embed", "insert", "hung"}
                    => tableExists /\ hasIndex
            /\ tableExists <=> hasIndex)
    /\ [][ /\ (~tableExists /\ tableExists')
                => InLoadAt({"create"}) /\ hasIndex' /\ table' = {}
           /\ (table' # table /\ table' # {})
                => tableExists /\ hasIndex /\ tableExists' /\ hasIndex' ]_vars

\* a reload is about to insert its second batch: the old table was dropped,
\* the new one created with its index, and the first batch is in it
C18_Witness ==
    \E c \in SeqCallers :
        /\ frame[c].pc = "insert"
        /\ frame[c].before.exists
        /\ frame[c].i = batch_size
        /\ tableExists /\ hasIndex
        /\ Cardinality(table) = batch_size

\* the rows of chunks a+1..b of a document's chunk list
RowsOf(cs, a, b) == {Row(0, k - 1, cs[k]) : k \in (a + 1)..b}

\* C19: the chunks go to the store in batches, strictly one after another:
\* a batch has at most batch_size rows and exactly batch_size unless it is the
\* last; it is inserted by one insert, once the embeddings of all its chunks
\* are there; and no embedding of a later batch is asked for before the
\* insert of the batch before has returned (while the batch at i is embedded,
\* the table holds the rows 1..i and the provider was called i + rows times).
C19_SequentialBatches ==
    /\ [](\A c \in SeqCallers :
            frame[c].pc \in {"embed", "insert"} =>
                LET f == frame[c]
                    N == Len(f.chunks)
                    size == Min(batch_size, N - f.i)
                IN  /\ f.i % batch_size = 0 /\ f.i < N
                    /\ Len(f.rows) <= batch_size
                    /\ (f.pc = "insert") <=> (Len(f.rows) = size)
                    /\ Len(f.rows) <= size
                    /\ \A j \in 1..Len(f.rows) :
                            f.rows[j] = Row(0, f.i + j - 1, f.chunks[f.i + j])
                    /\ table = RowsOf(f.chunks, 0, f.i)
                    /\ done[c].embeds = f.i + Len(f.rows))
    /\ [][ \A c \in SeqCallers :
            (table' # table /\ table' # {}) =>
                LET f == frame[c]
                IN  /\ f.pc = "insert"
                    /\ table' = RowsOf(f.chunks, 0, f.i + Len(f.rows))
                    /\ Cardinality(table') = Cardinality(table) + Len(f.rows)
                    /\ done'[c].embeds = done[c].embeds ]_vars

\* the second batch is being embedded: the first, of batch_size rows, is in
\* the table, and the second will be shorter
C19_Witness ==
    \E c \in SeqCallers :
        /\ frame[c].pc = "embed"
        /\ frame[c].i = batch_size
        /\ Len(frame[c].rows) = 1
        /\ Len(frame[c].chunks) \in (batch_size + 2)..(2 * batch_size - 1)
        /\ Cardinality(table) = batch_size

\* the complete row set 1..N of the document caller c loads
CompleteRows(c) == RowsOf(frame[c].chunks, 0, Len(frame[c].chunks))

\* C20: two callers of load_pdf on the one table race.  In every interleaving
\* the table holds only rows of the two documents and no id twice, and a load
\* that returned leaves an incomplete table only when another caller's
\* load_pdf has run too; the interleaving in which the table ends as the
\* complete row set of neither document is the state of C20_Witness.
C20_ConcurrentRace ==
    /\ \A r \in table : \A o \in table : r.id = o.id => r = o
    /\ \A r \in table : \E c \in Callers : r \in CompleteRows(c)
    /\ \A c \in Callers :
            (LoadedOK(c) /\ table # CompleteRows(c)) =>
                \E o \in Callers \ {c} : done[o].op = "load_pdf"

\* both loads have returned without an error, each on a document with
\* chunks, and the table is the complete row set of neither: it mixes rows
\* of the two documents, or has lost rows
C20_Witness ==
    /\ \A c \in Callers : LoadedOK(c) /\ frame[c].chunks # <<>>
    /\ \A c \in Callers : table # CompleteRows(c)
    /\ tableExists /\ table # {}

====
